---------------------------- MODULE Spec2Model ----------------------------
(***************************************************************************)
(* State-machine model of the HealthKit export importer                    *)
(* (datasets/me_db/health_kit/health_kit_lib.cc, phd/macros.h).            *)
(*                                                                         *)
(* ProcessHealthKitXmlExport iterates the children of the HealthData       *)
(* element.  One step of the model is one iteration of that loop: the      *)
(* element is skipped, or its attributes are extracted, its series is      *)
(* looked up or created, and a measurement is appended and filled in.      *)
(* FATAL logs a line and calls exit(1): the model records the line in      *)
(* fatal_log and no step is possible afterwards.                           *)
(*                                                                         *)
(* Strings are TLA+ strings.  What strtol, strtod and absl::ParseTime read *)
(* out of a string is given, for the strings of the model's alphabet, by   *)
(* the lexical tables Numeral and DateFields; the numbers are then         *)
(* computed from those fields as the library computes them.  A double is   *)
(* the exact rational [num, den]; the numerals of the alphabet are         *)
(* integers or have a dyadic fraction (.5, .25, .125), so that every       *)
(* double product of the model is exact in IEEE arithmetic too.            *)
(***************************************************************************)
EXTENDS Integers, Sequences, FiniteSets, TLC

VARIABLES
  input,               \* the children of HealthData iterated so far
  record_index,        \* number of Record elements met so far
  type_to_series_map,  \* Record.type -> index of its Series in series_collection
  series_collection,   \* the SeriesCollection's series, in creation order
  fatal_log            \* the line FATAL logged before exit(1); "" while running

vars == <<input, record_index, type_to_series_map, series_collection, fatal_log>>

\* Longest document of the sequencing specification.
MaxRecords == 3

\* Most extra attributes (duplicates, unrecognized names) added to a record's
\* attribute list in the attribute specification.
MaxExtraAttrs == 1

---------------------------------------------------------------------------
(* phd/macros.h *)

\* FATAL(...): the logged line; the caller stops with it.
FATAL(message) == message

\* CHECK compiled out: the conditional is never tested.
CheckCompiledOut(conditional, text) == ""

\* CHECK(conditional): the line logged when the conditional is false, "" when
\* it holds.
CHECK(conditional, text) ==
  IF ~conditional THEN FATAL("CHECK(" \o text \o ") failed!") ELSE ""

---------------------------------------------------------------------------
(* Lexical form of the value strings *)

Num(sign, int_digits, int, frac_digits, frac, rest) ==
  [sign |-> sign, int_digits |-> int_digits, int |-> int,
   frac_digits |-> frac_digits, frac |-> frac, rest |-> rest]

\* The decimal numeral a string starts with: its sign, the count and value of
\* its integer digits, the count and value of the digits after the point, and
\* the characters left after the numeral.
Numeral(text) ==
  CASE text = "70.5"  -> Num(1, 2, 70, 1, 5, "")
    [] text = "155"   -> Num(1, 3, 155, 0, 0, "")
    [] text = "12"    -> Num(1, 2, 12, 0, 0, "")
    [] text = "0"     -> Num(1, 1, 0, 0, 0, "")
    [] text = "0.5"   -> Num(1, 1, 0, 1, 5, "")
    [] text = "0.25"  -> Num(1, 1, 0, 2, 25, "")
    [] text = "1.125" -> Num(1, 1, 1, 3, 125, "")
    [] text = "-2.5"  -> Num(-1, 1, 2, 1, 5, "")
    [] text = "12abc" -> Num(1, 2, 12, 0, 0, "abc")
    [] OTHER          -> Num(1, 0, 0, 0, 0, text)

Pow10(n) ==
  CASE n = 0 -> 1
    [] n = 1 -> 10
    [] n = 2 -> 100
    [] n = 3 -> 1000

\* What strtol makes of the numeral n the string starts with.
LongOf(n, text) ==
  IF n.int_digits = 0
  THEN [number |-> 0, at_start |-> TRUE, at_end |-> text = ""]
  ELSE [number |-> n.sign * n.int, at_start |-> FALSE,
        at_end |-> n.frac_digits = 0 /\ n.rest = ""]

\* std::strtol(s, &endptr, 10): the number, whether endptr is still at the
\* start of the string, and whether *endptr is the terminating '\0'.
Strtol(text) == LongOf(Numeral(text), text)

\* What strtod makes of the numeral n the string starts with.
DoubleOf(n, text) ==
  IF n.int_digits + n.frac_digits = 0
  THEN [number |-> [num |-> 0, den |-> 1], at_start |-> TRUE,
        at_end |-> text = ""]
  ELSE [number |-> [num |-> n.sign * (n.int * Pow10(n.frac_digits) + n.frac),
                    den |-> Pow10(n.frac_digits)],
        at_start |-> FALSE, at_end |-> n.rest = ""]

\* std::strtod(s, &endptr): as Strtol, the number being the rational num/den.
Strtod(text) == DoubleOf(Numeral(text), text)

\* The test on endptr after strtol or strtod returned r.
NumberOrDie(r, message) ==
  IF r.at_start \/ ~r.at_end
  THEN [fatal |-> FATAL(message), number |-> r.number]
  ELSE [fatal |-> "", number |-> r.number]

ParseIntOrDie(integer_string) ==
  NumberOrDie(Strtol(integer_string), "Cannot convert string to integer")

ParseDoubleOrDie(double_string) ==
  NumberOrDie(Strtod(double_string), "Cannot convert string to double")

\* double * integer constant.
Times(d, k) == [num |-> d.num * k, den |-> d.den]

\* The implicit conversion of a double argument to the int64_t parameter of
\* SetMeasurement: the fractional part is discarded (truncation toward zero).
ToInt64(d) ==
  IF d.num >= 0 THEN d.num \div d.den ELSE -((-d.num) \div d.den)

---------------------------------------------------------------------------
(* Timestamps *)

Date(day, hour, minute, second, zone_minutes) ==
  [ok |-> TRUE, year |-> 1970, month |-> 1, day |-> day, hour |-> hour,
   minute |-> minute, second |-> second, zone_minutes |-> zone_minutes]

\* The fields "%Y-%m-%d %H:%M:%S %z" reads from a string, or ok = FALSE when
\* the string does not match the format.
DateFields(text) ==
  CASE text = "1970-01-01 08:00:00 +0000" -> Date(1, 8, 0, 0, 0)
    [] text = "1970-01-01 22:00:00 +0000" -> Date(1, 22, 0, 0, 0)
    [] text = "1970-01-02 06:00:00 +0000" -> Date(2, 6, 0, 0, 0)
    [] text = "1970-01-02 07:30:00 +0100" -> Date(2, 7, 30, 0, 60)
    [] OTHER -> [ok |-> FALSE]

\* Days from 1970-01-01 to the day doy (from 0, counted from 1 March) of the
\* year yoe of the 400-year era.
DaysOfEra(era, yoe, doy) ==
  era * 146097 + yoe * 365 + yoe \div 4 - yoe \div 100 + doy - 719468

\* yy is the year, counted from March.
DaysOfYear(yy, m, d) ==
  DaysOfEra(yy \div 400, yy % 400, (153 * ((m + 9) % 12) + 2) \div 5 + d - 1)

\* Days from 1970-01-01 to the civil date y-m-d.
DaysFromCivil(y, m, d) == DaysOfYear(IF m <= 2 THEN y - 1 ELSE y, m, d)

\* (time - absl::UnixEpoch()) / absl::Milliseconds(1) for the time with the
\* fields f, if absl::ParseTime succeeded.
MillisecondsOrDie(f) ==
  IF ~f.ok
  THEN [fatal |-> FATAL("Failed to parse date"), ms |-> 0]
  ELSE [fatal |-> "",
        ms |-> (((DaysFromCivil(f.year, f.month, f.day) * 24 + f.hour) * 60
                 + f.minute - f.zone_minutes) * 60 + f.second) * 1000]

ParseDateOrDie(date) == MillisecondsOrDie(DateFields(date))

---------------------------------------------------------------------------
(* RecordAttributes::CreateFromXmlRecord *)

\* A default-constructed RecordAttributes.
NewRecordAttributes ==
  [type_ |-> "", unit_ |-> "", value_ |-> "", sourceName_ |-> "",
   startDate_ |-> "", endDate_ |-> ""]

\* An attribute is the pair <<name, value>>.  Returns whether the attribute was
\* consumed, the line of a failed CHECK, and the string attribute_value points
\* to afterwards.
TryConsumeAttribute(attribute, attribute_name, attribute_value) ==
  IF attribute[1] # attribute_name
  THEN [consumed |-> FALSE, fatal |-> "", value |-> attribute_value]
  ELSE [consumed |-> attribute_value = "",
        fatal |-> CHECK(attribute_value = "", "attribute_value->empty()"),
        value |-> IF attribute_value = "" THEN attribute[2]
                  ELSE attribute_value]

\* One operand of the || chain: the call t has written its string into the
\* field; when it returned false the next operand is evaluated.
OrElse(t, field, a, next) ==
  IF t.consumed \/ t.fatal # ""
  THEN [consumed |-> t.consumed, fatal |-> t.fatal,
        attributes |-> [a EXCEPT ![field] = t.value]]
  ELSE next

\* The short-circuit chain of the six TryConsumeAttribute calls on one
\* attribute.
ConsumeAny(attr, a) ==
  OrElse(TryConsumeAttribute(attr, "type", a.type_), "type_", a,
  OrElse(TryConsumeAttribute(attr, "unit", a.unit_), "unit_", a,
  OrElse(TryConsumeAttribute(attr, "value", a.value_), "value_", a,
  OrElse(TryConsumeAttribute(attr, "sourceName", a.sourceName_), "sourceName_", a,
  OrElse(TryConsumeAttribute(attr, "startDate", a.startDate_), "startDate_", a,
  OrElse(TryConsumeAttribute(attr, "endDate", a.endDate_), "endDate_", a,
         [consumed |-> FALSE, fatal |-> "", attributes |-> a]))))))

\* The loop over record.get_child("<xmlattr>") from attribute i on.  returned
\* says the loop left through "return attributes" at attribute_count == 6.
RECURSIVE ScanAttributes(_, _, _, _)

\* The rest of an iteration once the chain has run on attribute i: the count
\* is incremented if the attribute was consumed, and the loop returns at 6.
AfterAttribute(attrs, i, step, count) ==
  IF step.fatal # ""
  THEN [fatal |-> step.fatal, returned |-> FALSE,
        attributes |-> step.attributes, attribute_count |-> count]
  ELSE IF count = 6
  THEN [fatal |-> "", returned |-> TRUE, attributes |-> step.attributes,
        attribute_count |-> count]
  ELSE ScanAttributes(attrs, i + 1, step.attributes, count)

Incremented(step, attribute_count) ==
  IF step.consumed THEN attribute_count + 1 ELSE attribute_count

NextAttribute(attrs, i, step, attribute_count) ==
  AfterAttribute(attrs, i, step, Incremented(step, attribute_count))

ScanAttributes(attrs, i, attributes, attribute_count) ==
  IF i > Len(attrs)
  THEN [fatal |-> "", returned |-> FALSE, attributes |-> attributes,
        attribute_count |-> attribute_count]
  ELSE NextAttribute(attrs, i, ConsumeAny(attrs[i], attributes),
                     attribute_count)

\* The check after the loop without the test of value_ in the case of four.
EnoughAttributesValueUntested(attributes, attribute_count) ==
  \/ attribute_count = 5 /\ attributes.unit_ = ""
  \/ attribute_count = 4 /\ attributes.unit_ = ""

\* The check after the loop: the two cases in which fewer than six attributes
\* are not an error.
EnoughAttributes(attributes, attribute_count) ==
  \/ attribute_count = 5 /\ attributes.unit_ = ""
  \/ attribute_count = 4 /\ attributes.unit_ = "" /\ attributes.value_ = ""

\* The end of CreateFromXmlRecord, the loop having ended as scan says.
AfterScan(scan) ==
  IF scan.fatal # "" \/ scan.returned THEN scan
  ELSE IF ~EnoughAttributes(scan.attributes, scan.attribute_count)
  THEN [scan EXCEPT !.fatal =
          FATAL("Failed to parse necessary attributes from Record")]
  ELSE scan

CreateFromXmlRecord(attrs) ==
  AfterScan(ScanAttributes(attrs, 1, NewRecordAttributes, 0))

---------------------------------------------------------------------------
(* Series, Measurement and RecordAttributes::SetMeasurement *)

\* series_collection->add_series(): a Series with no field set.
NewSeries == [name |-> "", family |-> "", unit |-> "", measurement |-> <<>>]

\* series->add_measurement(): a Measurement with no field set.
NewMeasurement ==
  [ms_since_unix_epoch |-> 0, value |-> 0, group |-> "", source |-> ""]

\* phd::ToCamelCase on the device names of the alphabet.
ToCamelCase(text) ==
  CASE text = "apple_watch" -> "AppleWatch"
    [] OTHER -> text

\* The group argument the declarations default to when a call gives none.
DefaultGroup(family) == family

\* The object a Consume...OrDie method runs on: the attributes, the series
\* series_ points to (its last measurement is measurement_) and new_series_.
Self(attributes, series, new_series) ==
  [type_ |-> attributes.type_, unit_ |-> attributes.unit_,
   value_ |-> attributes.value_, sourceName_ |-> attributes.sourceName_,
   startDate_ |-> attributes.startDate_, endDate_ |-> attributes.endDate_,
   series_ |-> series, new_series_ |-> new_series]

\* A FATAL that first takes back the measurement added for the record.
DieRolledBack(series, message) ==
  [series |-> [series EXCEPT !.measurement = SubSeq(@, 1, Len(@) - 1)],
   fatal |-> message]

\* The state a method leaves when FATAL ends the process in it.
Die(series, message) == [series |-> series, fatal |-> message]

\* measurement_->set_...: the setters act on the last measurement of series_.
SetLast(series, field, v) ==
  [series EXCEPT !.measurement[Len(series.measurement)][field] = v]

\* The end of SetMeasurement: the source is set if sourceName_ is not empty.
SetSource(self, series) ==
  IF CHECK(~(self.sourceName_ = ""), "!sourceName_.empty()") # ""
  THEN Die(series, CHECK(~(self.sourceName_ = ""), "!sourceName_.empty()"))
  ELSE [series |-> SetLast(series, "source",
                           "HealthKit:" \o ToCamelCase(self.sourceName_)),
        fatal |-> ""]

\* SetMeasurement after the series properties: start is what ParseDateOrDie
\* made of startDate_.
SetFields(self, series, start, value, group) ==
  IF start.fatal # "" THEN Die(series, start.fatal)
  ELSE SetSource(self,
         SetLast(SetLast(SetLast(series, "ms_since_unix_epoch", start.ms),
                         "value", value), "group", group))

SetMeasurement(self, family, name, group, unit, value) ==
  SetFields(self,
            IF self.new_series_
            THEN [self.series_ EXCEPT !.name = name, !.family = family,
                                      !.unit = unit]
            ELSE self.series_,
            ParseDateOrDie(self.startDate_), value, group)

\* A method of the shape CHECK(unit_ == expected); SetMeasurement(..., value)
\* whose value argument is parsed from value_ (parsed.fatal # "" when the
\* parser died).
CheckedMeasurement(self, expected, parsed, family, name, group, unit, value) ==
  IF CHECK(self.unit_ = expected, "unit_ == \"" \o expected \o "\"") # ""
  THEN Die(self.series_,
           CHECK(self.unit_ = expected, "unit_ == \"" \o expected \o "\""))
  ELSE IF parsed.fatal # "" THEN Die(self.series_, parsed.fatal)
  ELSE SetMeasurement(self, family, name, group, unit, value)

---------------------------------------------------------------------------
(* RecordAttributes::Consume...OrDie *)

ConsumeCountOrDie(self, family, name, group) ==
  LET p == ParseIntOrDie(self.value_) IN
  CheckedMeasurement(self, "count", p, family, name, group, "count", p.number)

ConsumeBodyMassIndexOrDie(self, family, name, group) ==
  LET p == ParseDoubleOrDie(self.value_) IN
  CheckedMeasurement(self, "count", p, family, name, group,
                     "body_mass_index_millis",
                     ToInt64(Times(p.number, 1000000)))

ConsumePercentageOrDie(self, family, name, group) ==
  LET p == ParseDoubleOrDie(self.value_) IN
  IF self.unit_ # "%"
  THEN Die(self.series_, FATAL("Expected unit %, received unit"))
  ELSE IF p.fatal # "" THEN Die(self.series_, p.fatal)
  ELSE SetMeasurement(self, family, name, group, "percentage_millis",
                      ToInt64(Times(p.number, 1000000)))

ConsumeCountsPerMinuteOrDie(self, family, name, group) ==
  LET p == ParseDoubleOrDie(self.value_) IN
  CheckedMeasurement(self, "count/min", p, family, name, group,
                     "beats_per_minute_millis",
                     ToInt64(Times(p.number, 1000000)))

ConsumeMillilitersPerKilogramMinuteOrDie(self, family, name, group) ==
  LET p == ParseDoubleOrDie(self.value_) IN
  CheckedMeasurement(self, "mL/min·kg", p, family, name, group,
                     "milliliters_per_kilogram_per_minute_millis",
                     ToInt64(Times(p.number, 1000000)))

ConsumeKCalOrDie(self, family, name, group) ==
  LET p == ParseDoubleOrDie(self.value_) IN
  CheckedMeasurement(self, "kcal", p, family, name, group, "calories",
                     ToInt64(Times(p.number, 1000)))

ConsumeKilometersOrDie(self, family, name, group) ==
  LET p == ParseDoubleOrDie(self.value_) IN
  CheckedMeasurement(self, "km", p, family, name, group, "millimeters",
                     ToInt64(Times(p.number, 1000000)))

ConsumeCentimetersOrDie(self, family, name, group) ==
  LET p == ParseDoubleOrDie(self.value_) IN
  CheckedMeasurement(self, "cm", p, family, name, group, "millimeters",
                     ToInt64(Times(p.number, 10)))

ConsumeMillilitersOrDie(self, family, name, group) ==
  LET p == ParseIntOrDie(self.value_) IN
  CheckedMeasurement(self, "mL", p, family, name, group, "milliliters",
                     p.number)

ConsumeKilogramsOrDie(self, family, name, group) ==
  LET p == ParseDoubleOrDie(self.value_) IN
  CheckedMeasurement(self, "kg", p, family, name, group, "milligrams",
                     ToInt64(Times(p.number, 1000000)))

ConsumeGramsOrDie(self, family, name, group) ==
  LET p == ParseDoubleOrDie(self.value_) IN
  CheckedMeasurement(self, "g", p, family, name, group, "milligrams",
                     ToInt64(Times(p.number, 1000)))

ConsumeMilligramsOrDie(self, family, name, group) ==
  LET p == ParseDoubleOrDie(self.value_) IN
  CheckedMeasurement(self, "mg", p, family, name, group, "milligrams",
                     ToInt64(p.number))

ConsumeMinutesOrDie(self, family, name, group) ==
  LET p == ParseDoubleOrDie(self.value_) IN
  CheckedMeasurement(self, "min", p, family, name, group, "milliseconds",
                     ToInt64(Times(Times(p.number, 60), 1000)))

ConsumeMillisecondsOrDie(self, family, name, group) ==
  LET p == ParseDoubleOrDie(self.value_) IN
  CheckedMeasurement(self, "ms", p, family, name, group, "milliseconds",
                     ToInt64(p.number))

\* duration_ms = ParseDateOrDie(endDate_) - ParseDateOrDie(startDate_): a date
\* that does not parse ends the process with the same line whichever operand
\* is evaluated first.
Minus(end, start) ==
  IF end.fatal # "" THEN [fatal |-> end.fatal, ms |-> 0]
  ELSE IF start.fatal # "" THEN [fatal |-> start.fatal, ms |-> 0]
  ELSE [fatal |-> "", ms |-> end.ms - start.ms]

DurationOrDie(self) ==
  Minus(ParseDateOrDie(self.endDate_), ParseDateOrDie(self.startDate_))

\* The end of the three duration methods: d is duration_ms.
SetDuration(self, d, family, name, group) ==
  IF d.fatal # "" THEN Die(self.series_, d.fatal)
  ELSE SetMeasurement(self, family, name, group, "milliseconds", d.ms)

ConsumeDurationOrDie(self, family, name, group) ==
  IF CHECK(self.value_ = "", "value_.empty()") # ""
  THEN Die(self.series_, CHECK(self.value_ = "", "value_.empty()"))
  ELSE IF CHECK(self.unit_ = "", "unit_.empty()") # ""
  THEN Die(self.series_, CHECK(self.unit_ = "", "unit_.empty()"))
  ELSE SetDuration(self, DurationOrDie(self), family, name, group)

\* The name a sleep analysis value selects; "" stands for the final else.
SleepAnalysisName(value) ==
  CASE value = "HKCategoryValueSleepAnalysisAsleep" -> "SleepTime"
    [] value = "HKCategoryValueSleepAnalysisInBed" -> "InBedTime"
    [] value = "HKCategoryValueSleepAnalysisAwake" -> "AwakeTime"
    [] OTHER -> ""

ConsumeSleepAnalysisOrDie(self, family, group) ==
  IF CHECK(self.unit_ = "", "unit_.empty()") # ""
  THEN Die(self.series_, CHECK(self.unit_ = "", "unit_.empty()"))
  ELSE IF SleepAnalysisName(self.value_) = ""
  THEN Die(self.series_,
           FATAL("Could not handle the value field of sleep analysis Record"))
  ELSE SetDuration(self, DurationOrDie(self), family,
                   SleepAnalysisName(self.value_), group)

\* The name a stand hour value selects; "" stands for the final else.
StandHourName(value) ==
  CASE value = "HKCategoryValueAppleStandHourIdle" -> "IdleHours"
    [] value = "HKCategoryValueAppleStandHourStood" -> "StandHours"
    [] OTHER -> ""

ConsumeStandHourOrDie(self, family, group) ==
  IF CHECK(self.unit_ = "", "unit_.empty()") # ""
  THEN Die(self.series_, CHECK(self.unit_ = "", "unit_.empty()"))
  ELSE IF StandHourName(self.value_) = ""
  THEN Die(self.series_,
           FATAL("Could not handle the value field of stand hour Record"))
  ELSE SetMeasurement(self, family, StandHourName(self.value_), group,
                      "count", 1)

ConsumeCountableEventOrDie(self, family, name, group) ==
  IF CHECK(self.unit_ = "", "unit_.empty()") # ""
  THEN Die(self.series_, CHECK(self.unit_ = "", "unit_.empty()"))
  ELSE SetMeasurement(self, family, name, group, "count", 1)

---------------------------------------------------------------------------
(* RecordAttributes::AddMeasurementToSeries *)

\* The final else of the chain: no branch names the type.
UnhandledTypeIgnored(self) == [series |-> self.series_, fatal |-> ""]

UnhandledType(self) == Die(self.series_, FATAL("Unhandled type for record"))

\* The chain of comparisons of type_, on an object whose series_ already holds
\* the new measurement.
ConsumeByType(self) ==
  LET t == self.type_
      Diet == DefaultGroup("Diet")
      Body == DefaultGroup("BodyMeasurements")
      Activity == DefaultGroup("Activity")
      Time == DefaultGroup("TimeTracking")
  IN
  CASE t = "HKQuantityTypeIdentifierDietaryWater" ->
         ConsumeMillilitersOrDie(self, "Diet", "WaterConsumed", Diet)
    [] t = "HKQuantityTypeIdentifierBodyMassIndex" ->
         ConsumeBodyMassIndexOrDie(self, "BodyMeasurements", "BodyMassIndex", Body)
    [] t = "HKQuantityTypeIdentifierHeight" ->
         ConsumeCentimetersOrDie(self, "BodyMeasurements", "Height", Body)
    [] t = "HKQuantityTypeIdentifierBodyMass" ->
         ConsumeKilogramsOrDie(self, "BodyMeasurements", "Weight", Body)
    [] t = "HKQuantityTypeIdentifierHeartRate" ->
         ConsumeCountsPerMinuteOrDie(self, "BodyMeasurements", "HeartRate", Body)
    [] t = "HKQuantityTypeIdentifierBodyFatPercentage" ->
         ConsumePercentageOrDie(self, "BodyMeasurements", "BodyFatPercentage", Body)
    [] t = "HKQuantityTypeIdentifierLeanBodyMass" ->
         ConsumeKilogramsOrDie(self, "BodyMeasurements", "LeanBodyMass", Body)
    [] t = "HKQuantityTypeIdentifierStepCount" ->
         ConsumeCountOrDie(self, "Activity", "StepCount", Activity)
    [] t = "HKQuantityTypeIdentifierDistanceWalkingRunning" ->
         ConsumeKilometersOrDie(self, "Activity", "WalkingRunningDistance", Activity)
    [] t = "HKQuantityTypeIdentifierBasalEnergyBurned" ->
         ConsumeKCalOrDie(self, "Activity", "RestingEnergy", Activity)
    [] t = "HKQuantityTypeIdentifierActiveEnergyBurned" ->
         ConsumeKCalOrDie(self, "Activity", "ActiveEnergy", Activity)
    [] t = "HKQuantityTypeIdentifierFlightsClimbed" ->
         ConsumeCountOrDie(self, "Activity", "FlightClimbed", Activity)
    [] t = "HKQuantityTypeIdentifierDietaryFatTotal" ->
         ConsumeGramsOrDie(self, "Diet", "TotalFatConsumed", Diet)
    [] t = "HKQuantityTypeIdentifierDietaryFatSaturated" ->
         ConsumeGramsOrDie(self, "Diet", "SaturatedFatConsumed", Diet)
    [] t = "HKQuantityTypeIdentifierDietaryCholesterol" ->
         ConsumeMilligramsOrDie(self, "Diet", "CholesterolConsumed", Diet)
    [] t = "HKQuantityTypeIdentifierDietarySodium" ->
         ConsumeMilligramsOrDie(self, "Diet", "SodiumConsumed", Diet)
    [] t = "HKQuantityTypeIdentifierDietaryCarbohydrates" ->
         ConsumeGramsOrDie(self, "Diet", "CarbohydratesConsumed", Diet)
    [] t = "HKQuantityTypeIdentifierDietaryFiber" ->
         ConsumeGramsOrDie(self, "Diet", "FiberConsumed", Diet)
    [] t = "HKQuantityTypeIdentifierAppleExerciseTime" ->
         ConsumeMinutesOrDie(self, "TimeTracking", "ExerciseTime", Time)
    [] t = "HKQuantityTypeIdentifierDietaryCaffeine" ->
         ConsumeMilligramsOrDie(self, "Diet", "CaffeineConsumed", Diet)
    [] t = "HKQuantityTypeIdentifierDistanceCycling" ->
         ConsumeKilometersOrDie(self, "Activity", "DistanceCycling", Activity)
    [] t = "HKQuantityTypeIdentifierRestingHeartRate" ->
         ConsumeCountsPerMinuteOrDie(self, "BodyMeasurements", "RestingHeartRate", Body)
    [] t = "HKQuantityTypeIdentifierVO2Max" ->
         ConsumeMillilitersPerKilogramMinuteOrDie(self, "BodyMeasurements", "VO2Max", Body)
    [] t = "HKQuantityTypeIdentifierWalkingHeartRateAverage" ->
         ConsumeCountsPerMinuteOrDie(self, "BodyMeasurements", "WalkingHeartRateAvg", Body)
    [] t = "HKCategoryTypeIdentifierSleepAnalysis" ->
         ConsumeSleepAnalysisOrDie(self, "Activity", Activity)
    [] t = "HKCategoryTypeIdentifierAppleStandHour" ->
         ConsumeStandHourOrDie(self, "Activity", Activity)
    [] t = "HKCategoryTypeIdentifierSexualActivity" ->
         ConsumeCountableEventOrDie(self, "Activity", "SexualActivityCount", Activity)
    [] t = "HKCategoryTypeIdentifierMindfulSession" ->
         ConsumeDurationOrDie(self, "TimeTracking", "MindfulnessTime", Time)
    [] t = "HKQuantityTypeIdentifierHeartRateVariabilitySDNN" ->
         ConsumeMillisecondsOrDie(self, "BodyMeasurements", "HeartRateVariability", Body)
    [] t = "HKQuantityTypeIdentifierDietarySugar" ->
         ConsumeGramsOrDie(self, "Diet", "SugarConsumed", Diet)
    [] t = "HKQuantityTypeIdentifierDietaryEnergyConsumed" ->
         ConsumeKCalOrDie(self, "Diet", "CaloriesConsumed", Diet)
    [] t = "HKQuantityTypeIdentifierDietaryProtein" ->
         ConsumeGramsOrDie(self, "Diet", "ProteinConsumed", Diet)
    [] t = "HKQuantityTypeIdentifierDietaryPotassium" ->
         ConsumeMilligramsOrDie(self, "Diet", "PotassiumConsumed", Diet)
    [] OTHER -> UnhandledType(self)

\* No measurement is added when the series already has one: the record
\* overwrites the last measurement.
AddMeasurementReused(attributes, series, new_series) ==
  ConsumeByType(Self(attributes,
                     IF series.measurement = <<>>
                     THEN [series EXCEPT !.measurement = <<NewMeasurement>>]
                     ELSE series,
                     new_series))

\* The measurement is added to the series before the type is looked at.
AddMeasurementToSeries(attributes, series, new_series) ==
  ConsumeByType(Self(attributes,
                     [series EXCEPT !.measurement = Append(@, NewMeasurement)],
                     new_series))

---------------------------------------------------------------------------
(* ProcessHealthKitXmlExport *)

\* The lambda without "*new_series = true".
AddSeriesFlagUnset(map, collection, name) ==
  [new_series |-> FALSE,
   collection |-> Append(collection, NewSeries),
   map        |-> map @@ (name :> Len(collection) + 1),
   series     |-> Len(collection) + 1]

\* The lambda handed to FindOrAdd: sets *new_series, adds a series to the
\* collection and inserts it in the map under the name.
AddSeries(map, collection, name) ==
  [new_series |-> TRUE,
   collection |-> Append(collection, NewSeries),
   map        |-> map @@ (name :> Len(collection) + 1),
   series     |-> Len(collection) + 1]

\* FindOrAdd(&map, key, add): the value the map holds for the key, and
\* otherwise what add(key) returns.
FindOrAdd(map, collection, key) ==
  IF key \in DOMAIN map
  THEN [new_series |-> FALSE, collection |-> collection, map |-> map,
        series |-> map[key]]
  ELSE AddSeries(map, collection, key)

Init ==
  /\ input = <<>>
  /\ record_index = 0
  /\ type_to_series_map = <<>>
  /\ series_collection = <<>>
  /\ fatal_log = ""

\* An iteration on an element that is not a Record: continue.
SkipElement(health_elem) ==
  /\ fatal_log = ""
  /\ health_elem.first # "Record"
  /\ input' = Append(input, health_elem)
  /\ UNCHANGED <<record_index, type_to_series_map, series_collection, fatal_log>>

\* The end of the loop body: the map and the collection as FindOrAdd and
\* AddMeasurementToSeries left them.
Added(found, added) ==
  /\ type_to_series_map' = found.map
  /\ series_collection' =
       [found.collection EXCEPT ![found.series] = added.series]
  /\ fatal_log' = added.fatal

\* record.AddMeasurementToSeries(series, set_properties_on_series)
Found(record, found) ==
  Added(found, AddMeasurementToSeries(record.attributes,
                                      found.collection[found.series],
                                      found.new_series))

\* The loop body after CreateFromXmlRecord.
Created(record) ==
  IF record.fatal # ""
  THEN /\ fatal_log' = record.fatal
       /\ UNCHANGED <<type_to_series_map, series_collection>>
  ELSE Found(record, FindOrAdd(type_to_series_map, series_collection,
                               record.attributes.type_))

\* An iteration on a Record, to the end of the loop body or to exit(1).
ProcessRecord(health_elem) ==
  /\ fatal_log = ""
  /\ health_elem.first = "Record"
  /\ input' = Append(input, health_elem)
  /\ record_index' = record_index + 1
  /\ Created(CreateFromXmlRecord(health_elem.xmlattr))

---------------------------------------------------------------------------
(* The documents: children of HealthData and their <xmlattr> lists *)

KnownTypes ==
  {"HKQuantityTypeIdentifierDietaryWater",
   "HKQuantityTypeIdentifierBodyMassIndex",
   "HKQuantityTypeIdentifierHeight",
   "HKQuantityTypeIdentifierBodyMass",
   "HKQuantityTypeIdentifierHeartRate",
   "HKQuantityTypeIdentifierBodyFatPercentage",
   "HKQuantityTypeIdentifierLeanBodyMass",
   "HKQuantityTypeIdentifierStepCount",
   "HKQuantityTypeIdentifierDistanceWalkingRunning",
   "HKQuantityTypeIdentifierBasalEnergyBurned",
   "HKQuantityTypeIdentifierActiveEnergyBurned",
   "HKQuantityTypeIdentifierFlightsClimbed",
   "HKQuantityTypeIdentifierDietaryFatTotal",
   "HKQuantityTypeIdentifierDietaryFatSaturated",
   "HKQuantityTypeIdentifierDietaryCholesterol",
   "HKQuantityTypeIdentifierDietarySodium",
   "HKQuantityTypeIdentifierDietaryCarbohydrates",
   "HKQuantityTypeIdentifierDietaryFiber",
   "HKQuantityTypeIdentifierAppleExerciseTime",
   "HKQuantityTypeIdentifierDietaryCaffeine",
   "HKQuantityTypeIdentifierDistanceCycling",
   "HKQuantityTypeIdentifierRestingHeartRate",
   "HKQuantityTypeIdentifierVO2Max",
   "HKQuantityTypeIdentifierWalkingHeartRateAverage",
   "HKCategoryTypeIdentifierSleepAnalysis",
   "HKCategoryTypeIdentifierAppleStandHour",
   "HKCategoryTypeIdentifierSexualActivity",
   "HKCategoryTypeIdentifierMindfulSession",
   "HKQuantityTypeIdentifierHeartRateVariabilitySDNN",
   "HKQuantityTypeIdentifierDietarySugar",
   "HKQuantityTypeIdentifierDietaryEnergyConsumed",
   "HKQuantityTypeIdentifierDietaryProtein",
   "HKQuantityTypeIdentifierDietaryPotassium"}

\* A type no branch of AddMeasurementToSeries names.
UnknownType == "HKQuantityTypeIdentifierBloodGlucose"

Asleep == "HKCategoryValueSleepAnalysisAsleep"
InBed == "HKCategoryValueSleepAnalysisInBed"
Awake == "HKCategoryValueSleepAnalysisAwake"
Stood == "HKCategoryValueAppleStandHourStood"
Idle == "HKCategoryValueAppleStandHourIdle"

Evening == "1970-01-01 22:00:00 +0000"
Morning == "1970-01-02 06:00:00 +0000"

One(name, value) == IF value = "" THEN <<>> ELSE << <<name, value>> >>

\* A Record element as the export writes it: unit and value are left out when
\* they have no text; creationDate is an attribute the importer does not read.
XmlRecord(type, sourceName, unit, startDate, endDate, value) ==
  [first |-> "Record",
   xmlattr |-> << <<"type", type>>, <<"sourceName", sourceName>> >>
               \o One("unit", unit)
               \o << <<"creationDate", Morning>>, <<"startDate", startDate>>,
                     <<"endDate", endDate>> >>
               \o One("value", value)]

\* A child of HealthData that is not a Record.
Workout == [first |-> "Workout", xmlattr |-> << <<"duration", "12">> >>]

Sleep(value) ==
  XmlRecord("HKCategoryTypeIdentifierSleepAnalysis", "apple_watch", "",
            Evening, Morning, value)

BodyMass(sourceName, unit, startDate, value) ==
  XmlRecord("HKQuantityTypeIdentifierBodyMass", sourceName, unit, startDate,
            startDate, value)

\* The elements of the sequencing specification.
Elements ==
  {Workout,
   Sleep(Asleep), Sleep(InBed), Sleep(Awake), Sleep("UnknownEnum"),
   BodyMass("iPhone", "kg", "1970-01-01 08:00:00 +0000", "70.5"),
   BodyMass("apple_watch", "kg", Evening, "155"),
   BodyMass("iPhone", "lb", Evening, "155"),
   BodyMass("iPhone", "kg", "yesterday", "70.5"),
   BodyMass("", "kg", Evening, "70.5"),
   XmlRecord("HKQuantityTypeIdentifierStepCount", "iPhone", "count",
             Evening, Morning, "12"),
   XmlRecord("HKQuantityTypeIdentifierStepCount", "iPhone", "count",
             Evening, Morning, "12abc"),
   XmlRecord("HKCategoryTypeIdentifierAppleStandHour", "apple_watch", "",
             Evening, Morning, Stood),
   XmlRecord(UnknownType, "iPhone", "mg/dL", Evening, Morning, "155")}

Units ==
  {"", "count", "%", "count/min", "mL/min·kg", "kcal", "km", "cm", "mL", "kg",
   "g", "mg", "min", "ms", "lb"}

Values ==
  {"", "70.5", "155", "12", "0", "0.5", "0.25", "1.125", "-2.5", "12abc",
   "abc", Asleep, InBed, Awake, Stood, Idle, "UnknownEnum"}

\* An element of the rule specification: any type with any unit and any value.
RuleElement(type, unit, value) ==
  XmlRecord(type, "iPhone", unit, Evening, Morning, value)

AttributeNames ==
  <<"type", "sourceName", "unit", "startDate", "endDate", "value">>

\* The text an attribute carries when it is present and not empty.
Nominal(name) ==
  CASE name = "type" -> "HKCategoryTypeIdentifierSexualActivity"
    [] name = "sourceName" -> "iPhone"
    [] name = "unit" -> "count"
    [] name = "startDate" -> Evening
    [] name = "endDate" -> Morning
    [] name = "value" -> "12"
    [] OTHER -> "x"

\* An attribute that is absent, present with an empty string, or present with
\* its nominal text.
OneAttr(name, presence) ==
  CASE presence = "absent" -> <<>>
    [] presence = "empty" -> << <<name, "">> >>
    [] OTHER -> << <<name, Nominal(name)>> >>

\* The six recognized attributes from the i-th on, each as presence says.
RECURSIVE BaseAttrs(_, _)
BaseAttrs(presence, i) ==
  IF i > Len(AttributeNames) THEN <<>>
  ELSE OneAttr(AttributeNames[i], presence[AttributeNames[i]])
       \o BaseAttrs(presence, i + 1)

Presences ==
  [{AttributeNames[i] : i \in 1..Len(AttributeNames)} ->
     {"absent", "empty", "full"}]

\* Attributes put before or after those: a recognized name once more, or a name
\* the importer does not read, empty or not.
ExtraAttrs ==
  {<<name, value>> :
     name \in {AttributeNames[i] : i \in 1..Len(AttributeNames)} \cup {"device"},
     value \in {"", "x"}}

ExtraLists == UNION {[1..k -> ExtraAttrs] : k \in 0..MaxExtraAttrs}

\* An element of the attribute specification.
AttrElement(presence, front, back) ==
  [first |-> "Record", xmlattr |-> front \o BaseAttrs(presence, 1) \o back]

---------------------------------------------------------------------------
(* Specifications *)

\* Documents of up to MaxRecords elements.
Skip == Len(input) < MaxRecords /\ \E e \in Elements : SkipElement(e)
Process == Len(input) < MaxRecords /\ \E e \in Elements : ProcessRecord(e)
Next == Skip \/ Process
Spec == Init /\ [][Next]_vars

\* Documents of one element, over every type, unit and value.
SkipRule == input = <<>> /\ SkipElement(Workout)
ProcessRule ==
  /\ input = <<>>
  /\ \E t \in KnownTypes \cup {UnknownType}, u \in Units, v \in Values :
       ProcessRecord(RuleElement(t, u, v))
NextRules == SkipRule \/ ProcessRule
SpecRules == Init /\ [][NextRules]_vars

\* Documents of one element, over the attribute lists.
SkipAttr == input = <<>> /\ SkipElement(Workout)
ProcessAttr ==
  /\ input = <<>>
  /\ \E p \in Presences, front \in ExtraLists, back \in ExtraLists :
       /\ Len(front) + Len(back) <= MaxExtraAttrs
       /\ ProcessRecord(AttrElement(p, front, back))
NextAttrs == SkipAttr \/ ProcessAttr
SpecAttrs == Init /\ [][NextAttrs]_vars

---------------------------------------------------------------------------
(* Properties *)

IsRecord(e) == e.first = "Record"

AttrNamesOf(e) == {e.xmlattr[i][1] : i \in 1..Len(e.xmlattr)}

\* The text of the first attribute of the element with the name; "" if none.
TextOf(e, name) ==
  LET at == {i \in 1..Len(e.xmlattr) : e.xmlattr[i][1] = name} IN
  IF at = {} THEN ""
  ELSE e.xmlattr[CHOOSE i \in at : \A j \in at : i <= j][2]

TypeOf(e) == TextOf(e, "type")

\* The Record elements of type t among the first n elements iterated.
RecordsOfType(t, n) ==
  SelectSeq(SubSeq(input, 1, n), LAMBDA e : IsRecord(e) /\ TypeOf(e) = t)

TypesSeen ==
  {TypeOf(input[i]) : i \in {j \in 1..Len(input) : IsRecord(input[j])}}

\* Index of the first Record of type t.
FirstOfType(t) ==
  CHOOSE i \in 1..Len(input) :
    /\ IsRecord(input[i]) /\ TypeOf(input[i]) = t
    /\ \A j \in 1..(i - 1) : ~(IsRecord(input[j]) /\ TypeOf(input[j]) = t)

\* The series the map holds for type t.
SeriesOf(t) == series_collection[type_to_series_map[t]]

\* The measurement a well-formed record yields when it is processed alone.
Alone(e) ==
  AddMeasurementToSeries(CreateFromXmlRecord(e.xmlattr).attributes,
                         NewSeries, TRUE).series.measurement[1]

\* The series name section 4.4 gives a record of the sequencing alphabet.
RuleName(e) ==
  CASE TypeOf(e) = "HKQuantityTypeIdentifierBodyMass" -> "Weight"
    [] TypeOf(e) = "HKQuantityTypeIdentifierStepCount" -> "StepCount"
    [] TypeOf(e) = "HKCategoryTypeIdentifierSleepAnalysis" ->
         (CASE TextOf(e, "value") = Asleep -> "SleepTime"
            [] TextOf(e, "value") = InBed -> "InBedTime"
            [] OTHER -> "AwakeTime")
    [] TypeOf(e) = "HKCategoryTypeIdentifierAppleStandHour" ->
         (IF TextOf(e, "value") = Stood THEN "StandHours" ELSE "IdleHours")
    [] OTHER -> ""

\* C1: one Series per distinct record type.  The map holds exactly the types
\* of the records met, each mapped to a series of its own, so the collection
\* has as many series as there are distinct types; and the new-series flag was
\* true for the first record of a type only: the name of the series is the one
\* the first record of the type selects, whatever later records select.
C1_OneSeriesPerType ==
  /\ DOMAIN type_to_series_map = TypesSeen
  /\ Len(series_collection) = Cardinality(TypesSeen)
  /\ \A t \in TypesSeen : type_to_series_map[t] \in 1..Len(series_collection)
  /\ \A t, u \in TypesSeen :
       t # u => type_to_series_map[t] # type_to_series_map[u]
  /\ \A t \in TypesSeen :
       (FirstOfType(t) < Len(input) \/ fatal_log = "")
         => SeriesOf(t).name = RuleName(input[FirstOfType(t)])

\* C1 witness: three records of two types, two of them of one type with
\* different sources, all processed.
C1_Witness ==
  /\ fatal_log = ""
  /\ record_index = 3
  /\ Len(series_collection) = 2
  /\ \E t \in TypesSeen :
       /\ Len(SeriesOf(t).measurement) = 2
       /\ SeriesOf(t).measurement[1].source # SeriesOf(t).measurement[2].source

\* C2 (as claimed): every sleep analysis record with the value Asleep that
\* yielded a measurement is in a series named SleepTime, its value being
\* endDate - startDate in milliseconds (eight hours for the records of the
\* alphabet), whatever sleep records came before it.
C2_AsleepFiledAsSleepTime ==
  \A i \in 1..Len(input) :
    (input[i] = Sleep(Asleep) /\ (i < Len(input) \/ fatal_log = "")) =>
      /\ SeriesOf(TypeOf(input[i])).name = "SleepTime"
      /\ SeriesOf(TypeOf(input[i])).measurement[
           Len(RecordsOfType(TypeOf(input[i]), i))].value = 8 * 3600 * 1000

\* Extraction accepted the record: FindOrAdd ran, so a series exists.
Accepted == series_collection # <<>>

RecognizedNames ==
  {"type", "unit", "value", "sourceName", "startDate", "endDate"}

\* C3 (as claimed): an accepted record carries type, sourceName, startDate and
\* endDate; the only attributes it can lack are unit, or unit and value.
C3_AcceptedHasRequired ==
  Accepted =>
    (RecognizedNames \ AttrNamesOf(input[1]))
      \in {{}, {"unit"}, {"unit", "value"}}

\* The three cases of section 3: six attributes consumed; five, the unit being
\* empty; four, the unit and the value being empty.
ValidCount(count, unit, value) ==
  \/ count = 6
  \/ count = 5 /\ unit = ""
  \/ count = 4 /\ unit = "" /\ value = ""

\* C4: extraction accepts a record exactly in the three valid cases of the
\* consumed count and the emptiness of unit and value, and is fatal for every
\* other combination.
C4_AcceptsExactlyThreeCases ==
  (input # <<>> /\ IsRecord(input[1])) =>
    LET scan == ScanAttributes(input[1].xmlattr, 1, NewRecordAttributes, 0) IN
    /\ Accepted <=>
         /\ scan.fatal = ""
         /\ ValidCount(scan.attribute_count, scan.attributes.unit_,
                       scan.attributes.value_)
    /\ ~Accepted => fatal_log # ""

\* C4 witness: a record of four attributes, without unit and value, accepted.
C4_Witness ==
  /\ Accepted
  /\ AttrNamesOf(input[1]) = RecognizedNames \ {"unit", "value"}
  /\ Len(input[1].xmlattr) = 4

\* A recognized name occurs more than once among the attributes.
HasDuplicate(e) ==
  \E i, j \in 1..Len(e.xmlattr) :
    i < j /\ e.xmlattr[i][1] = e.xmlattr[j][1]
          /\ e.xmlattr[i][1] \in RecognizedNames

\* C5 (as claimed): an attribute list in which a recognized name occurs more
\* than once is never accepted.
C5_DuplicateNeverAccepted ==
  (input # <<>> /\ IsRecord(input[1]) /\ HasDuplicate(input[1])) => ~Accepted

\* The unit the rule of a known type expects ("" for no unit) and, for the
\* rules that scale a number, the scale of section 4.4 (0 for the others).
Rule(unit, scale) == [unit |-> unit, scale |-> scale]

RuleOf(type) ==
  CASE type \in {"HKQuantityTypeIdentifierDietaryWater"} -> Rule("mL", 1)
    [] type \in {"HKQuantityTypeIdentifierBodyMassIndex"} -> Rule("count", 1000000)
    [] type \in {"HKQuantityTypeIdentifierHeight"} -> Rule("cm", 10)
    [] type \in {"HKQuantityTypeIdentifierBodyMass",
                 "HKQuantityTypeIdentifierLeanBodyMass"} -> Rule("kg", 1000000)
    [] type \in {"HKQuantityTypeIdentifierHeartRate",
                 "HKQuantityTypeIdentifierRestingHeartRate",
                 "HKQuantityTypeIdentifierWalkingHeartRateAverage"} ->
         Rule("count/min", 1000000)
    [] type \in {"HKQuantityTypeIdentifierBodyFatPercentage"} -> Rule("%", 1000000)
    [] type \in {"HKQuantityTypeIdentifierStepCount",
                 "HKQuantityTypeIdentifierFlightsClimbed"} -> Rule("count", 1)
    [] type \in {"HKQuantityTypeIdentifierDistanceWalkingRunning",
                 "HKQuantityTypeIdentifierDistanceCycling"} -> Rule("km", 1000000)
    [] type \in {"HKQuantityTypeIdentifierBasalEnergyBurned",
                 "HKQuantityTypeIdentifierActiveEnergyBurned",
                 "HKQuantityTypeIdentifierDietaryEnergyConsumed"} ->
         Rule("kcal", 1000)
    [] type \in {"HKQuantityTypeIdentifierDietaryFatTotal",
                 "HKQuantityTypeIdentifierDietaryFatSaturated",
                 "HKQuantityTypeIdentifierDietaryCarbohydrates",
                 "HKQuantityTypeIdentifierDietaryFiber",
                 "HKQuantityTypeIdentifierDietarySugar",
                 "HKQuantityTypeIdentifierDietaryProtein"} -> Rule("g", 1000)
    [] type \in {"HKQuantityTypeIdentifierDietaryCholesterol",
                 "HKQuantityTypeIdentifierDietarySodium",
                 "HKQuantityTypeIdentifierDietaryCaffeine",
                 "HKQuantityTypeIdentifierDietaryPotassium"} -> Rule("mg", 1)
    [] type \in {"HKQuantityTypeIdentifierAppleExerciseTime"} -> Rule("min", 60000)
    [] type \in {"HKQuantityTypeIdentifierVO2Max"} -> Rule("mL/min·kg", 1000000)
    [] type \in {"HKQuantityTypeIdentifierHeartRateVariabilitySDNN"} ->
         Rule("ms", 1)
    [] OTHER -> Rule("", 0)

\* The measurement added for the only record of the document.
OnlyMeasurement == series_collection[1].measurement[1]

\* C6: a record of a known type whose unit is not the unit its rule expects
\* ends the run with a fatal error, and no measurement gets a converted value:
\* either no measurement exists or the one added has no field set.
C6_UnitMismatchIsFatal ==
  (/\ input # <<>> /\ IsRecord(input[1])
   /\ TypeOf(input[1]) \in KnownTypes
   /\ TextOf(input[1], "unit") # RuleOf(TypeOf(input[1])).unit) =>
    /\ fatal_log # ""
    /\ Accepted => OnlyMeasurement = NewMeasurement

\* C6 witness: the weight record in pounds of section 8, dead on the unit
\* check with its measurement added and left untouched.
C6_Witness ==
  /\ input = <<RuleElement("HKQuantityTypeIdentifierBodyMass", "lb", "155")>>
  /\ fatal_log = "CHECK(unit_ == \"kg\") failed!"
  /\ OnlyMeasurement = NewMeasurement

\* C7 (as claimed): for a record that matches a scaling rule and is converted,
\* the value is exactly the parsed decimal number times the scale of the rule.
C7_ValueIsExactProduct ==
  (/\ input # <<>> /\ IsRecord(input[1]) /\ fatal_log = ""
   /\ RuleOf(TypeOf(input[1])).scale > 0) =>
    LET parsed == Strtod(TextOf(input[1], "value")).number IN
    OnlyMeasurement.value * parsed.den
      = parsed.num * RuleOf(TypeOf(input[1])).scale

\* C8: in a run that has not aborted every Record has contributed exactly one
\* measurement to the series of its type, in input order (the series of a type
\* holds, in order, what each record of the type yields), and the elements
\* that are not Records have contributed nothing.
C8_OrderPreserved ==
  fatal_log = "" =>
    /\ record_index = Cardinality({i \in 1..Len(input) : IsRecord(input[i])})
    /\ Len(series_collection) = Cardinality(TypesSeen)
    /\ \A t \in TypesSeen :
         LET records == RecordsOfType(t, Len(input)) IN
         SeriesOf(t).measurement
           = [k \in 1..Len(records) |-> Alone(records[k])]

\* C8 witness: two weight records from different sources with an element that
\* is not a Record between them.
C8_Witness ==
  /\ fatal_log = ""
  /\ Len(input) = 3
  /\ ~IsRecord(input[2])
  /\ TypeOf(input[1]) = "HKQuantityTypeIdentifierBodyMass"
  /\ TypeOf(input[3]) = "HKQuantityTypeIdentifierBodyMass"
  /\ TextOf(input[1], "sourceName") # TextOf(input[3], "sourceName")

\* C9: a Record of a type that is not known ends the run: it is the last
\* element iterated and the process has exited on the fatal line.
C9_UnknownTypeAborts ==
  \A i \in 1..Len(input) :
    (IsRecord(input[i]) /\ TypeOf(input[i]) \notin KnownTypes) =>
      /\ i = Len(input)
      /\ fatal_log = "Unhandled type for record"

\* C9 witness: a record of an unknown type after two processed elements.
C9_Witness ==
  /\ Len(input) = 3
  /\ TypeOf(input[3]) = UnknownType
  /\ fatal_log = "Unhandled type for record"

\* The element the run died on.
Failing == input[Len(input)]

\* No other record of the type of the failing one came before it.
FirstOfItsType == Len(RecordsOfType(TypeOf(Failing), Len(input))) = 1

\* What the records before the failing one have contributed to the series of
\* type t.
Before(t) ==
  [k \in 1..Len(RecordsOfType(t, Len(input) - 1)) |->
     Alone(RecordsOfType(t, Len(input) - 1)[k])]

\* C10 (as claimed): at the abort neither the map nor the collection holds a
\* series created for the failing record or a measurement appended for it.
C10_NoPartialState ==
  fatal_log # "" =>
    /\ FirstOfItsType => TypeOf(Failing) \notin DOMAIN type_to_series_map
    /\ \A t \in DOMAIN type_to_series_map :
         SeriesOf(t).measurement = Before(t)

\* C10 (amended): at the abort the map and the collection hold what the
\* earlier records contributed, unchanged, and in addition the series of the
\* failing record's type (created for it when it is the first of its type) and
\* one measurement appended to that series for it, whose source is not set.
C10_PartialStateAtAbort ==
  fatal_log # "" =>
    /\ TypeOf(Failing) \in DOMAIN type_to_series_map
    /\ FirstOfItsType => type_to_series_map[TypeOf(Failing)]
                           = Len(series_collection)
    /\ \A t \in DOMAIN type_to_series_map :
         LET m == SeriesOf(t).measurement IN
         IF t = TypeOf(Failing)
         THEN /\ Len(m) = Len(Before(t)) + 1
              /\ SubSeq(m, 1, Len(m) - 1) = Before(t)
              /\ m[Len(m)].source = ""
         ELSE m = Before(t)

\* C10 witness: a weight record in pounds, first of its type, after a processed
\* sleep record: its series and its measurement exist at the abort.
C10_Witness ==
  /\ Len(input) = 2
  /\ fatal_log = "CHECK(unit_ == \"kg\") failed!"
  /\ Len(series_collection) = 2
  /\ series_collection[2].measurement = <<NewMeasurement>>

=============================================================================
